---- MODULE Spec2Model ----
(***************************************************************************)
(* ChromeImporter (brave/utility/importer/chrome_importer.cc): one import  *)
(* session, StartImport, run against a source profile while the host may   *)
(* set the cancellation flag at any moment.                                *)
(*                                                                         *)
(* Every poll of cancelled() together with the sink call it guards is one  *)
(* step of the importer; the host's Cancel interleaves between steps.      *)
(* The source profile is read when the code reads it: the state of a      *)
(* store (absent, not openable, its tables) is drawn at the step that      *)
(* opens it.                                                               *)
(*                                                                         *)
(* chromeTimeToDouble, the conversion of the source's timestamps, is       *)
(* checked on its own under TimeSpec, with the arithmetic of int64_t.      *)
(***************************************************************************)
EXTENDS Integers, Sequences, FiniteSets, TLC

\* Records (rows, bookmark nodes, icon mappings, credentials) that one
\* source profile holds at most, all stores together.
MaxRecords == 2

\* importer::ImportItem, the categories of the item mask, in StartImport's order.
ItemOrder == <<"HISTORY", "FAVORITES", "COOKIES", "PASSWORDS">>

Items == {ItemOrder[i] : i \in 1..Len(ItemOrder)}

\* Page URLs of the source stores.
Urls == {"u1", "u2"}

\* Sequences over S of length at most n.
SeqsUpTo(S, n) == UNION {[1..k -> S] : k \in 0..n}

\* The states a store file can be in when a step looks for it.
StoreStates == {"absent", "unopenable", "ok"}

VARIABLES
  pc,           \* position of StartImport
  cancelled_,   \* Importer::cancelled_, read by cancelled()
  items,        \* the item mask StartImport was called with
  log,          \* the calls made on bridge_, in order
  budget,       \* records of the source profile not read yet
  db,           \* the sql::Connection of the running step: its tables
  s,            \* the sql::Statement of the running step: rows not stepped yet
  rows,         \* ImportHistory: std::vector<ImporterURLRow> rows
  cookies,      \* ImportCookies: std::vector<ImportedCookieEntry> cookies
  bookmarks_json, \* ImportBookmarks: what JSONReader::Read made of the file
  bookmark_dict, \* ImportBookmarks: the dictionary parsed from the Bookmarks file
  bookmarks,    \* ImportBookmarks: std::vector<ImportedBookmarkEntry> bookmarks
  favicon_map,  \* ImportBookmarks: FaviconMap favicon_map
  favicons,     \* ImportBookmarks: favicon_base::FaviconUsageDataList favicons
  forms,        \* ImportPasswords: the vector forms
  blacklist,    \* ImportPasswords: the vector blacklist
  form_i,       \* ImportPasswords: the index i of the forwarding loops, from 1
  backend_log,  \* the calls made on the credential backend, with their results
  time,         \* chromeTimeToDouble: the argument, int64_t time
  seconds       \* chromeTimeToDouble: the value returned

vars == <<pc, cancelled_, items, log, budget, db, s, rows, cookies,
          bookmarks_json, bookmark_dict, bookmarks,
          favicon_map, favicons, forms, blacklist, form_i, backend_log,
          time, seconds>>

\* The locals of ImportBookmarks.
fav == <<bookmarks_json, bookmark_dict, bookmarks, favicon_map, favicons>>

\* The locals of ImportPasswords and the backend's record.
pw == <<forms, blacklist, form_i, backend_log>>

\* A call on the bridge (the sink).
Call(name, arg) == [call |-> name, arg |-> arg]

\* No connection open.
NoDb == [open |-> FALSE]

\* Requested with the mask test dropped.
RequestedAny(item) == TRUE

\* (items & item) of StartImport's guards.
Requested(item) == item \in items

\* cancelled() as StartImport's guards and the loops poll it.
cancelled == cancelled_

(***************************************************************************)
(* chromeTimeToDouble                                                      *)
(*                                                                         *)
(* An int64_t is a sign and a magnitude; the magnitude is its digits to    *)
(* the base 10^4, the least significant first, without leading zeros.      *)
(***************************************************************************)

\* The base of the digits of a magnitude.
Base == 10000

RECURSIVE Trim(_)
\* A magnitude without its leading zeros.
Trim(m) ==
  IF m = <<>> THEN <<>>
  ELSE IF m[Len(m)] = 0 THEN Trim(SubSeq(m, 1, Len(m) - 1))
  ELSE m

RECURSIVE MagOfNat(_)
\* The magnitude of a small natural number.
MagOfNat(n) == IF n = 0 THEN <<>> ELSE <<n % Base>> \o MagOfNat(n \div Base)

RECURSIVE MagMul(_, _, _)
\* m * k + carry, for 0 < k <= Base.
MagMul(m, k, carry) ==
  IF m = <<>> THEN MagOfNat(carry)
  ELSE <<(Head(m) * k + carry) % Base>>
         \o MagMul(Tail(m), k, (Head(m) * k + carry) \div Base)

RECURSIVE MagAdd(_, _, _)
\* a + b + carry
MagAdd(a, b, carry) ==
  IF a = <<>> /\ b = <<>> THEN MagOfNat(carry)
  ELSE LET x == IF a = <<>> THEN 0 ELSE Head(a)
           y == IF b = <<>> THEN 0 ELSE Head(b)
           ta == IF a = <<>> THEN <<>> ELSE Tail(a)
           tb == IF b = <<>> THEN <<>> ELSE Tail(b)
       IN <<(x + y + carry) % Base>> \o MagAdd(ta, tb, (x + y + carry) \div Base)

RECURSIVE MagSubDigits(_, _, _)
\* The digits of a - b - borrow, for a >= b + borrow.
MagSubDigits(a, b, borrow) ==
  IF a = <<>> THEN <<>>
  ELSE LET y == (IF b = <<>> THEN 0 ELSE Head(b)) + borrow
           tb == IF b = <<>> THEN <<>> ELSE Tail(b)
       IN IF Head(a) >= y
            THEN <<Head(a) - y>> \o MagSubDigits(Tail(a), tb, 0)
            ELSE <<Head(a) + Base - y>> \o MagSubDigits(Tail(a), tb, 1)

\* a - b, for a >= b.
MagSub(a, b) == Trim(MagSubDigits(a, b, 0))

RECURSIVE MagLessFrom(_, _, _)
\* a < b for magnitudes of one length, compared from the digit at k down.
MagLessFrom(a, b, k) ==
  IF k = 0 THEN FALSE
  ELSE IF a[k] # b[k] THEN a[k] < b[k]
  ELSE MagLessFrom(a, b, k - 1)

\* a < b
MagLess(a, b) ==
  IF Len(a) # Len(b) THEN Len(a) < Len(b) ELSE MagLessFrom(a, b, Len(a))

RECURSIVE MagDivRem(_, _)
\* The quotient and the remainder of m by k, for 0 < k <= Base.
MagDivRem(m, k) ==
  IF m = <<>> THEN [q |-> <<>>, r |-> 0]
  ELSE LET hi == MagDivRem(Tail(m), k)
           cur == hi.r * Base + Head(m)
       IN [q |-> <<cur \div k>> \o hi.q, r |-> cur % k]

\* The int64_t with a sign and a magnitude; zero has no sign.
Int64(neg, mag) == [neg |-> neg /\ Trim(mag) # <<>>, mag |-> Trim(mag)]

Zero == Int64(FALSE, <<>>)

\* A small integer as an int64_t.
Int64Of(n) == IF n < 0 THEN Int64(TRUE, MagOfNat(0 - n)) ELSE Int64(FALSE, MagOfNat(n))

\* -x
Negate(x) == Int64(~x.neg, x.mag)

\* x + y
Plus(x, y) ==
  IF x.neg = y.neg THEN Int64(x.neg, MagAdd(x.mag, y.mag, 0))
  ELSE IF MagLess(x.mag, y.mag) THEN Int64(y.neg, MagSub(y.mag, x.mag))
  ELSE Int64(x.neg, MagSub(x.mag, y.mag))

\* x - y
Minus(x, y) == Plus(x, Negate(y))

\* x * k, for a constant 0 < k <= Base.
Times(x, k) == Int64(x.neg, MagMul(x.mag, k, 0))

\* x / k as C++ divides integers: the quotient is truncated towards zero.
Quotient(x, k) == Int64(x.neg, MagDivRem(x.mag, k).q)

RECURSIVE HexLiteral(_)
\* The value of a hexadecimal literal, its digits given the last one first.
HexLiteral(digits) ==
  IF digits = <<>> THEN <<>>
  ELSE MagMul(HexLiteral(Tail(digits)), 16, Head(digits))

\* 2^63 and 2^64: 0x8000000000000000 and 0x10000000000000000.
TwoTo63 == Trim(HexLiteral(<<0, 0, 0, 0, 0, 0, 0, 0, 0, 0, 0, 0, 0, 0, 0, 8>>))
TwoTo64 == Trim(HexLiteral(<<0, 0, 0, 0, 0, 0, 0, 0, 0, 0, 0, 0, 0, 0, 0, 0, 1>>))

\* The value is an int64_t: -2^63 <= x <= 2^63 - 1.
FitsInt64(x) ==
  IF x.neg THEN ~MagLess(TwoTo63, x.mag) ELSE MagLess(x.mag, TwoTo63)

\* 0x19DB1DED53E8000
TicksTo1970 ==
  Int64(FALSE, Trim(HexLiteral(<<0, 0, 0, 8, 14, 3, 5, 13, 14, 13, 1, 11, 13, 9, 1>>)))

\* time * 10 or time * 10 - 0x19DB1DED53E8000 is out of the range of int64_t:
\* signed overflow, for which the language defines no behaviour.
Overflows(time_) ==
  \/ ~FitsInt64(Times(time_, 10))
  \/ ~FitsInt64(Minus(Times(time_, 10), TicksTo1970))

\* return ((time * 10 - 0x19DB1DED53E8000) / 10000) / 1000;
\* The quotient is below 2^53: the conversion to double changes no value.
chromeTimeToDouble(time_) ==
  Quotient(Quotient(Minus(Times(time_, 10), TicksTo1970), 10000), 1000)

Init ==
  /\ pc = "NotifyStarted"
  /\ cancelled_ = FALSE
  /\ items \in SUBSET Items
  /\ log = <<>>
  /\ budget = MaxRecords
  /\ db = NoDb
  /\ s = <<>>
  /\ rows = <<>>
  /\ cookies = <<>>
  /\ bookmarks_json = "none"
  /\ bookmark_dict = [roots |-> FALSE]
  /\ bookmarks = <<>>
  /\ favicon_map = [order |-> <<>>, urls |-> << >>]
  /\ favicons = <<>>
  /\ forms = <<>>
  /\ blacklist = <<>>
  /\ form_i = 1
  /\ backend_log = <<>>
  /\ time = Zero
  /\ seconds = Zero

\* The host sets the flag while the session runs; nothing clears it.
Cancel ==
  /\ ~cancelled_
  /\ pc \notin {"done", "aborted"}
  /\ cancelled_' = TRUE
  /\ UNCHANGED <<pc, items, time, seconds, log, budget, db, s, rows, cookies, fav, pw>>

\* bridge_->NotifyStarted()
NotifyStarted ==
  /\ pc = "NotifyStarted"
  /\ log' = Append(log, Call("NotifyStarted", <<>>))
  /\ pc' = "HISTORY"
  /\ UNCHANGED <<cancelled_, items, time, seconds, budget, db, s, rows, cookies, fav, pw>>

\* ItemGuard with the poll of cancelled() dropped.
ItemGuardNoPoll(item, run, skip) ==
  /\ pc = item
  /\ IF Requested(item)
       THEN /\ log' = Append(log, Call("NotifyItemStarted", item))
            /\ pc' = run
       ELSE /\ pc' = skip
            /\ UNCHANGED log
  /\ UNCHANGED <<cancelled_, items, time, seconds, budget, db, s, rows, cookies, fav, pw>>

\* if ((items & item) && !cancelled()) { bridge_->NotifyItemStarted(item); ...
ItemGuard(item, run, skip) ==
  /\ pc = item
  /\ IF Requested(item) /\ ~cancelled
       THEN /\ log' = Append(log, Call("NotifyItemStarted", item))
            /\ pc' = run
       ELSE /\ pc' = skip
            /\ UNCHANGED log
  /\ UNCHANGED <<cancelled_, items, time, seconds, budget, db, s, rows, cookies, fav, pw>>

\* The return of the step, which releases its locals (the vectors, the
\* statement, the connection), and ... bridge_->NotifyItemEnded(item); }
ItemEnded(item, at, next) ==
  /\ pc = at
  /\ log' = Append(log, Call("NotifyItemEnded", item))
  /\ pc' = next
  /\ db' = NoDb
  /\ s' = <<>>
  /\ rows' = <<>>
  /\ cookies' = <<>>
  /\ bookmarks_json' = "none"
  /\ bookmark_dict' = [roots |-> FALSE]
  /\ bookmarks' = <<>>
  /\ favicon_map' = [order |-> <<>>, urls |-> << >>]
  /\ favicons' = <<>>
  /\ forms' = <<>>
  /\ blacklist' = <<>>
  /\ form_i' = 1
  /\ UNCHANGED <<cancelled_, items, time, seconds, budget, backend_log>>

(***************************************************************************)
(* History                                                                 *)
(***************************************************************************)

\* A row of the urls table.
UrlsRows == [url : Urls, hidden : {0, 1}]

\* HistoryQuery with the WHERE clause dropped.
HistoryQueryAll(table) == table

\* SELECT ... FROM urls WHERE hidden = 0
HistoryQuery(table) == SelectSeq(table, LAMBDA r : r.hidden = 0)

\* The ImporterURLRow built from a row of the query.
ImporterURLRow(r) == [url |-> r.url, hidden |-> FALSE]

\* ImportHistory up to the statement: the path check, db.Open, the query.
ImportHistoryOpen ==
  /\ pc = "ImportHistory"
  /\ \E st \in StoreStates :
       IF st # "ok"
         THEN /\ pc' = "HistoryEnded"
              /\ UNCHANGED <<budget, db, s>>
         ELSE \E table \in SeqsUpTo(UrlsRows, budget) :
                /\ db' = [open |-> TRUE, urls |-> table]
                /\ s' = HistoryQuery(table)
                /\ budget' = budget - Len(table)
                /\ pc' = "HistoryStep"
  /\ UNCHANGED <<cancelled_, items, time, seconds, log, rows, cookies, fav, pw>>

\* ImportHistoryStep delivering each row as it is read.
ImportHistoryStepDelivering ==
  /\ pc = "HistoryStep"
  /\ IF s # <<>> /\ ~cancelled
       THEN /\ rows' = Append(rows, ImporterURLRow(Head(s)))
            /\ log' = Append(log, Call("SetHistoryItems",
                                       <<ImporterURLRow(Head(s))>>))
            /\ s' = Tail(s)
            /\ UNCHANGED pc
       ELSE /\ pc' = "HistoryDeliver"
            /\ UNCHANGED <<rows, s, log>>
  /\ UNCHANGED <<cancelled_, items, time, seconds, budget, db, cookies, fav, pw>>

\* while (s.Step() && !cancelled()) { ... rows.push_back(row); }
ImportHistoryStep ==
  /\ pc = "HistoryStep"
  /\ IF s # <<>> /\ ~cancelled
       THEN /\ rows' = Append(rows, ImporterURLRow(Head(s)))
            /\ s' = Tail(s)
            /\ UNCHANGED pc
       ELSE /\ pc' = "HistoryDeliver"
            /\ UNCHANGED <<rows, s>>
  /\ UNCHANGED <<cancelled_, items, time, seconds, log, budget, db, cookies, fav, pw>>

\* ImportHistoryDeliver with the poll of cancelled() dropped.
ImportHistoryDeliverNoPoll ==
  /\ pc = "HistoryDeliver"
  /\ IF rows # <<>>
       THEN log' = Append(log, Call("SetHistoryItems", rows))
       ELSE UNCHANGED log
  /\ pc' = "HistoryEnded"
  /\ UNCHANGED <<cancelled_, items, time, seconds, budget, db, s, rows, cookies, fav, pw>>

\* if (!rows.empty() && !cancelled()) bridge_->SetHistoryItems(rows, ...);
ImportHistoryDeliver ==
  /\ pc = "HistoryDeliver"
  /\ IF rows # <<>> /\ ~cancelled
       THEN log' = Append(log, Call("SetHistoryItems", rows))
       ELSE UNCHANGED log
  /\ pc' = "HistoryEnded"
  /\ UNCHANGED <<cancelled_, items, time, seconds, budget, db, s, rows, cookies, fav, pw>>

(***************************************************************************)
(* Favorites: the Bookmarks file                                           *)
(***************************************************************************)

\* What base::JSONReader::Read makes of the Bookmarks file: nothing (file
\* absent, unreadable or not JSON), a value that is no dictionary, a dictionary.
JsonStates == {"null", "notdict", "dict"}

\* name values of folder nodes.
FolderNames == {"A", "B"}

\* date_added values: a decimal string, and one std::stoll cannot convert
\* (the value GetString leaves when the key is missing).
DateStrings == {"13", ""}

\* A child that is no dictionary.
NonDictNodes == {[dict |-> FALSE]}

\* Children that are dictionaries and have no children of their own: a node
\* of unknown type, url nodes, folders without children.  A folder whose
\* date_added cannot be converted is listed once: the walk never reads more
\* of it than its date.
LeafNodes ==
  NonDictNodes
    \cup {[dict |-> TRUE, type |-> "", name |-> "t", date_added |-> "",
           url |-> "", children |-> <<>>]}
    \cup {[dict |-> TRUE, type |-> "url", name |-> "t", date_added |-> d,
           url |-> "u1", children |-> <<>>] : d \in DateStrings}
    \cup {[dict |-> TRUE, type |-> "folder", name |-> n, date_added |-> "13",
           url |-> "", children |-> <<>>] : n \in FolderNames}
    \cup {[dict |-> TRUE, type |-> "folder", name |-> "A", date_added |-> "",
           url |-> "", children |-> <<>>]}

RECURSIVE Forest(_), Tree(_)

\* The children lists with exactly n nodes in all.
Forest(n) ==
  IF n = 0 THEN {<<>>}
  ELSE UNION { {<<t>> \o f : t \in Tree(k), f \in Forest(n - k)} : k \in 1..n }

\* The nodes with exactly n nodes in their subtree, themselves included:
\* folders with children, and url nodes that carry a children list.
Tree(n) ==
  IF n = 1 THEN LeafNodes
  ELSE {[dict |-> TRUE, type |-> "folder", name |-> nm, date_added |-> "13",
         url |-> "", children |-> c] : nm \in FolderNames, c \in Forest(n - 1)}
         \cup {[dict |-> TRUE, type |-> "url", name |-> "t", date_added |-> "13",
                 url |-> "u1", children |-> c] : c \in Forest(n - 1)}

\* A root of the file (roots.bookmark_bar, roots.other): absent, or a
\* dictionary with a name and a children list.
Roots(nm, n) ==
  IF n = 0 THEN {[present |-> FALSE], [present |-> TRUE, name |-> nm, children |-> <<>>]}
  ELSE {[present |-> TRUE, name |-> nm, children |-> c] : c \in Forest(n)}

\* The Bookmarks dictionaries with at most n nodes under their roots.
BookmarkDicts(n) ==
  {[roots |-> FALSE]}
    \cup UNION { UNION { {[roots |-> TRUE, bookmark_bar |-> b, other |-> o] :
                            b \in Roots("bar", i), o \in Roots("other", j)}
                         : j \in 0..(n - i) } : i \in 0..n }

RECURSIVE NodeCount(_)
\* The nodes of a children list.
NodeCount(children) ==
  IF children = <<>> THEN 0
  ELSE (IF Head(children).dict
          THEN 1 + NodeCount(Head(children).children) ELSE 1)
       + NodeCount(Tail(children))

\* The nodes of a Bookmarks dictionary.
DictSize(d) ==
  IF ~d.roots THEN 0
  ELSE (IF d.bookmark_bar.present THEN NodeCount(d.bookmark_bar.children) ELSE 0)
       + (IF d.other.present THEN NodeCount(d.other.children) ELSE 0)

\* std::stoll(date_added) throws (std::invalid_argument) on a string that
\* starts with no number.
StollThrows(date_added) == date_added = ""

\* The entry RecursiveReadBookmarksFolder builds for a folder child.
FolderEntry(dict, parent_path, is_in_toolbar) ==
  [in_toolbar |-> is_in_toolbar, is_folder |-> TRUE, url |-> "",
   path |-> parent_path, title |-> dict.name]

\* The entry RecursiveReadBookmarksFolder builds for a url child.
UrlEntry(dict, parent_path, is_in_toolbar) ==
  [in_toolbar |-> is_in_toolbar, is_folder |-> FALSE, url |-> dict.url,
   path |-> parent_path, title |-> dict.name]

\* ChildInToolbar handing the caller's flag down.
ChildInToolbarInherited(is_in_toolbar) == is_in_toolbar

\* is_in_toolbar of the recursive call on a folder child.
ChildInToolbar(is_in_toolbar) == FALSE

RECURSIVE RecursiveReadBookmarksFolder(_, _, _, _)
\* The loop over a folder's children, from the child at the head of
\* `children` on.  out = [threw, bookmarks]: the vector so far, and whether
\* std::stoll threw, which ends the walk.
RecursiveReadBookmarksFolder(children, parent_path, is_in_toolbar, out) ==
  IF out.threw \/ children = <<>> THEN out
  ELSE LET dict == Head(children)
           rest == Tail(children)
       IN IF ~dict.dict
            THEN RecursiveReadBookmarksFolder(rest, parent_path, is_in_toolbar, out)
          ELSE IF dict.type = "folder"
            THEN IF StollThrows(dict.date_added)
                   THEN [out EXCEPT !.threw = TRUE]
                   ELSE RecursiveReadBookmarksFolder(
                          rest, parent_path, is_in_toolbar,
                          RecursiveReadBookmarksFolder(
                            dict.children, Append(parent_path, dict.name),
                            ChildInToolbar(is_in_toolbar),
                            [out EXCEPT !.bookmarks =
                               Append(@, FolderEntry(dict, parent_path,
                                                     is_in_toolbar))]))
          ELSE IF dict.type = "url"
            THEN IF StollThrows(dict.date_added)
                   THEN [out EXCEPT !.threw = TRUE]
                   ELSE RecursiveReadBookmarksFolder(
                          rest, parent_path, is_in_toolbar,
                          [out EXCEPT !.bookmarks =
                             Append(@, UrlEntry(dict, parent_path,
                                                is_in_toolbar))])
          ELSE RecursiveReadBookmarksFolder(rest, parent_path, is_in_toolbar, out)

\* The call on one root: its name is the path, is_in_toolbar as given.
ReadRoot(root, is_in_toolbar, out) ==
  IF root.present
    THEN RecursiveReadBookmarksFolder(root.children, <<root.name>>,
                                      is_in_toolbar, out)
    ELSE out

\* BookmarkBarInToolbar with false for true.
BookmarkBarNotInToolbar == FALSE

\* is_in_toolbar of the calls on roots.bookmark_bar and on roots.other.
BookmarkBarInToolbar == TRUE
OtherInToolbar == FALSE

\* ReadBookmarks walking roots.other before roots.bookmark_bar.
ReadBookmarksOtherFirst(d) ==
  IF ~d.roots THEN [threw |-> FALSE, bookmarks |-> <<>>]
  ELSE ReadRoot(d.bookmark_bar, BookmarkBarInToolbar,
                ReadRoot(d.other, OtherInToolbar,
                         [threw |-> FALSE, bookmarks |-> <<>>]))

\* The walk of ImportBookmarks over the dictionary: bookmark_bar, then other.
ReadBookmarks(d) ==
  IF ~d.roots THEN [threw |-> FALSE, bookmarks |-> <<>>]
  ELSE ReadRoot(d.other, OtherInToolbar,
                ReadRoot(d.bookmark_bar, BookmarkBarInToolbar,
                         [threw |-> FALSE, bookmarks |-> <<>>]))

\* ImportBookmarksRead going on to the Favicons store where it should return.
ImportBookmarksReadOn ==
  /\ pc = "ImportBookmarks"
  /\ \E js \in JsonStates :
       /\ bookmarks_json' = js
       /\ IF js # "dict"
            THEN /\ pc' = "FaviconsOpen"
                 /\ UNCHANGED <<budget, bookmark_dict, bookmarks>>
            ELSE \E d \in BookmarkDicts(budget) :
                   LET out == ReadBookmarks(d)
                   IN /\ budget' = budget - DictSize(d)
                      /\ bookmark_dict' = d
                      /\ bookmarks' = out.bookmarks
                      /\ pc' = IF out.threw THEN "aborted"
                                            ELSE "BookmarksDeliver"
  /\ UNCHANGED <<cancelled_, items, time, seconds, log, db, s, rows, cookies, favicon_map,
                 favicons, pw>>

\* ImportBookmarks up to the walk's end: the file is read and parsed, the
\* roots are walked.  The exception of std::stoll is caught nowhere: it ends
\* StartImport, and with it the session.
ImportBookmarksRead ==
  /\ pc = "ImportBookmarks"
  /\ \E js \in JsonStates :
       /\ bookmarks_json' = js
       /\ IF js # "dict"
            THEN /\ pc' = "FavoritesEnded"
                 /\ UNCHANGED <<budget, bookmark_dict, bookmarks>>
            ELSE \E d \in BookmarkDicts(budget) :
                   LET out == ReadBookmarks(d)
                   IN /\ budget' = budget - DictSize(d)
                      /\ bookmark_dict' = d
                      /\ bookmarks' = out.bookmarks
                      /\ pc' = IF out.threw THEN "aborted"
                                            ELSE "BookmarksDeliver"
  /\ UNCHANGED <<cancelled_, items, time, seconds, log, db, s, rows, cookies, favicon_map,
                 favicons, pw>>

\* base::UTF8ToUTF16("Imported from Chrome")
first_folder_name == "Imported from Chrome"

\* ImportBookmarksDeliver with the poll of cancelled() dropped.
ImportBookmarksDeliverNoPoll ==
  /\ pc = "BookmarksDeliver"
  /\ IF bookmarks # <<>>
       THEN log' = Append(log, Call("AddBookmarks",
                     [bookmarks |-> bookmarks,
                      first_folder_name |-> first_folder_name]))
       ELSE UNCHANGED log
  /\ pc' = "FaviconsOpen"
  /\ UNCHANGED <<cancelled_, items, time, seconds, budget, db, s, rows, cookies, fav, pw>>

\* if (!bookmarks.empty() && !cancelled())
\*   bridge_->AddBookmarks(bookmarks, first_folder_name);
ImportBookmarksDeliver ==
  /\ pc = "BookmarksDeliver"
  /\ IF bookmarks # <<>> /\ ~cancelled
       THEN log' = Append(log, Call("AddBookmarks",
                     [bookmarks |-> bookmarks,
                      first_folder_name |-> first_folder_name]))
       ELSE UNCHANGED log
  /\ pc' = "FaviconsOpen"
  /\ UNCHANGED <<cancelled_, items, time, seconds, budget, db, s, rows, cookies, fav, pw>>

(***************************************************************************)
(* Favorites: the Favicons store                                           *)
(***************************************************************************)

\* icon_id values of the Favicons store.
IconIds == {1, 2}

\* A row of the icon_mapping table.
IconMappingRows == [icon_id : IconIds, page_url : Urls]

\* url values of the favicons table: no URL at all, a remote URL, a data URL
\* the codec re-encodes, a data URL it cannot decode.
IconUrls == {"", "http://i", "data:png", "data:junk"}

\* The favicons table as the point lookups of LoadFaviconData see it: for
\* each id looked up no row, or the row's url.
FaviconsTables(ids) ==
  [ids -> {[row |-> FALSE]} \cup {[row |-> TRUE, url |-> u] : u \in IconUrls}]

\* GURL::is_valid
UrlIsValid(url) == url # ""

\* GURL::SchemeIs(url::kDataScheme)
SchemeIsData(url) == url \in {"data:png", "data:junk"}

\* s.ColumnBlobAsVector(0, &data): column 0 again, as bytes; data.empty()
DataEmpty(url) == url = ""

\* importer::ReencodeFavicon succeeds
ReencodeFavicon(url) == url = "data:png"

\* FaviconMap: the page URLs of each icon id, and the ids as first inserted.
EmptyFaviconMap == [order |-> <<>>, urls |-> <<>>]

\* FaviconMapInsert assigning the set where it should insert into it.
FaviconMapAssign(m, icon_id, url) ==
  IF icon_id \in DOMAIN m.urls
    THEN [m EXCEPT !.urls[icon_id] = {url}]
    ELSE [order |-> Append(m.order, icon_id),
          urls |-> (icon_id :> {url}) @@ m.urls]

\* (*favicon_map)[icon_id].insert(url)
FaviconMapInsert(m, icon_id, url) ==
  IF icon_id \in DOMAIN m.urls
    THEN [m EXCEPT !.urls[icon_id] = @ \cup {url}]
    ELSE [order |-> Append(m.order, icon_id),
          urls |-> (icon_id :> {url}) @@ m.urls]

\* The ids of a FaviconMap as its iterator visits them.
FaviconMapIds(m) == m.order

\* One round of LoadFaviconData's loop, for the id i: the usage record
\* pushed (icon_id names the row it was read from), or nothing.
LoadOne(table, m, i) ==
  IF ~table[i].row THEN <<>>
  ELSE LET url == table[i].url
       IN IF UrlIsValid(url)
            THEN IF SchemeIsData(url)
                   THEN IF DataEmpty(url) THEN <<>>
                        ELSE IF ~ReencodeFavicon(url) THEN <<>>
                        ELSE <<[icon_id |-> i, favicon_url |-> "",
                                png_data |-> url, urls |-> m.urls[i]]>>
                   ELSE <<[icon_id |-> i, favicon_url |-> url,
                           png_data |-> "", urls |-> m.urls[i]]>>
            ELSE <<>>

RECURSIVE LoadFromBackwards(_, _, _)
\* LoadFrom taking the ids from the last one to the first.
LoadFromBackwards(table, m, ids) ==
  IF ids = <<>> THEN <<>>
  ELSE LoadFromBackwards(table, m, Tail(ids)) \o LoadOne(table, m, Head(ids))

RECURSIVE LoadFrom(_, _, _)
\* The rounds of the loop for the ids of `ids`, in order.
LoadFrom(table, m, ids) ==
  IF ids = <<>> THEN <<>>
  ELSE LoadOne(table, m, Head(ids)) \o LoadFrom(table, m, Tail(ids))

\* LoadFaviconData(&db, favicon_map, &favicons)
LoadFaviconData(table, m) == LoadFrom(table, m, FaviconMapIds(m))

\* ImportBookmarks from the favicons path check to the statement of
\* ImportFaviconURLs.
ImportFaviconsOpen ==
  /\ pc = "FaviconsOpen"
  /\ \E st \in StoreStates :
       IF st # "ok"
         THEN /\ pc' = "FavoritesEnded"
              /\ UNCHANGED <<budget, db, s>>
         ELSE \E mapping \in SeqsUpTo(IconMappingRows, budget) :
                /\ db' = [open |-> TRUE, icon_mapping |-> mapping]
                /\ s' = mapping
                /\ budget' = budget - Len(mapping)
                /\ pc' = "FaviconURLsStep"
  /\ UNCHANGED <<cancelled_, items, time, seconds, log, rows, cookies, fav, pw>>

\* while (s.Step() && !cancelled()) { ... (*favicon_map)[icon_id].insert(url); }
ImportFaviconURLsStep ==
  /\ pc = "FaviconURLsStep"
  /\ IF s # <<>> /\ ~cancelled
       THEN /\ favicon_map' =
                 FaviconMapInsert(favicon_map, Head(s).icon_id, Head(s).page_url)
            /\ s' = Tail(s)
            /\ UNCHANGED pc
       ELSE /\ pc' = "FaviconsCheck"
            /\ UNCHANGED <<favicon_map, s>>
  /\ UNCHANGED <<cancelled_, items, time, seconds, log, budget, db, rows, cookies,
                 bookmarks_json, bookmark_dict, bookmarks, favicons, pw>>

\* if (!favicon_map.empty() && !cancelled()) { LoadFaviconData(...); ...
\* The loop of LoadFaviconData polls nothing; it runs to its end.
ImportFaviconsLoad ==
  /\ pc = "FaviconsCheck"
  /\ IF favicon_map.order # <<>> /\ ~cancelled
       THEN /\ \E table \in FaviconsTables(DOMAIN favicon_map.urls) :
                 /\ db' = [open |-> TRUE, icon_mapping |-> db.icon_mapping,
                           favicons |-> table]
                 /\ favicons' = LoadFaviconData(table, favicon_map)
            /\ pc' = "SetFavicons"
            /\ UNCHANGED <<s, favicon_map>>
       ELSE /\ pc' = "FavoritesEnded"
            /\ UNCHANGED <<db, s, favicon_map, favicons>>
  /\ UNCHANGED <<cancelled_, items, time, seconds, log, budget, rows, cookies,
                 bookmarks_json, bookmark_dict, bookmarks, pw>>

\* ... bridge_->SetFavicons(favicons); }
ImportFaviconsSet ==
  /\ pc = "SetFavicons"
  /\ log' = Append(log, Call("SetFavicons", favicons))
  /\ pc' = "FavoritesEnded"
  /\ UNCHANGED <<cancelled_, items, time, seconds, budget, db, s, rows, cookies, fav, pw>>

(***************************************************************************)
(* Cookies                                                                 *)
(***************************************************************************)

\* host_key values of the cookies table, as strings of characters.
HostKeys == {<<"a">>, <<"b", "c">>}

\* A row of the cookies table; encrypted_value is a blob.
CookiesRows == [host_key : HostKeys, encrypted_value : {<<>>, <<"x">>}]

\* CookiesQuery with the WHERE clause dropped.
CookiesQueryAll(table) == table

\* SELECT ... FROM cookies WHERE length(encrypted_value) = 0
CookiesQuery(table) == SelectSeq(table, LAMBDA r : Len(r.encrypted_value) = 0)

\* The ImportedCookieEntry built from a row of the query.
ImportedCookieEntry(r) ==
  [domain |-> r.host_key, host |-> <<"*">> \o r.host_key]

\* ImportCookies up to the statement: the path check, db.Open, the query.
ImportCookiesOpen ==
  /\ pc = "ImportCookies"
  /\ \E st \in StoreStates :
       IF st # "ok"
         THEN /\ pc' = "CookiesEnded"
              /\ UNCHANGED <<budget, db, s>>
         ELSE \E table \in SeqsUpTo(CookiesRows, budget) :
                /\ db' = [open |-> TRUE, cookies |-> table]
                /\ s' = CookiesQuery(table)
                /\ budget' = budget - Len(table)
                /\ pc' = "CookiesStep"
  /\ UNCHANGED <<cancelled_, items, time, seconds, log, rows, cookies, fav, pw>>

\* while (s.Step() && !cancelled()) { ... cookies.push_back(cookie); }
ImportCookiesStep ==
  /\ pc = "CookiesStep"
  /\ IF s # <<>> /\ ~cancelled
       THEN /\ cookies' = Append(cookies, ImportedCookieEntry(Head(s)))
            /\ s' = Tail(s)
            /\ UNCHANGED pc
       ELSE /\ pc' = "CookiesDeliver"
            /\ UNCHANGED <<cookies, s>>
  /\ UNCHANGED <<cancelled_, items, time, seconds, log, budget, db, rows, fav, pw>>

\* if (!cookies.empty() && !cancelled()) ...->SetCookies(cookies);
ImportCookiesDeliver ==
  /\ pc = "CookiesDeliver"
  /\ IF cookies # <<>> /\ ~cancelled
       THEN log' = Append(log, Call("SetCookies", cookies))
       ELSE UNCHANGED log
  /\ pc' = "CookiesEnded"
  /\ UNCHANGED <<cancelled_, items, time, seconds, budget, db, s, rows, cookies, fav, pw>>

(***************************************************************************)
(* Passwords                                                               *)
(***************************************************************************)

\* signon_realm values of the saved credentials.
Realms == {"r1", "r2"}

\* The PasswordForms a backend returns from GetAutofillableLogins and from
\* GetBlacklistLogins.
AutofillableForms == [signon_realm : Realms, blacklisted_by_user : {FALSE}]
BlacklistForms == [signon_realm : Realms, blacklisted_by_user : {TRUE}]

\* What reading kLocalProfileId from the Preferences file gives: a read
\* error, no such value, a value that is no integer, an integer.
PrefsStates == {"read_error", "no_value", "not_integer", "ok"}

\* os_crypt::SelectedLinuxBackend
SelectedLinuxBackends ==
  {"DEFER", "BASIC_TEXT", "GNOME_ANY", "GNOME_KEYRING", "GNOME_LIBSECRET",
   "KWALLET", "KWALLET5"}

\* The backend ImportPasswords constructs on USE_X11 builds for a selection,
\* with and without USE_LIBSECRET; "none" when backend stays null.
NativeBackend(selected_backend, use_libsecret) ==
  IF selected_backend \in {"KWALLET", "KWALLET5"}
    THEN IF selected_backend = "KWALLET"
           THEN "NativeBackendKWallet(KDE4)"
           ELSE "NativeBackendKWallet(KDE5)"
  ELSE IF selected_backend \in {"GNOME_ANY", "GNOME_KEYRING", "GNOME_LIBSECRET"}
    THEN IF use_libsecret /\ selected_backend \in {"GNOME_ANY", "GNOME_LIBSECRET"}
           THEN "NativeBackendLibsecret"
           ELSE "none"
  ELSE "none"

\* ImportPasswords up to the first query.  Without USE_X11: the Login Data
\* database and its Init.  With USE_X11: the Preferences file, the selected
\* backend and its Init.
ImportPasswordsInit ==
  /\ pc = "ImportPasswords"
  /\ \E use_x11 \in BOOLEAN, init \in BOOLEAN :
       IF ~use_x11
         THEN /\ backend_log' = Append(backend_log,
                   [call |-> "Init", backend |-> "LoginDatabase", success |-> init])
              /\ pc' = IF init THEN "GetAutofillableLogins" ELSE "PasswordsEnded"
         ELSE \E prefs \in PrefsStates, selected_backend \in SelectedLinuxBackends,
                 use_libsecret \in BOOLEAN :
                LET backend == NativeBackend(selected_backend, use_libsecret)
                IN IF prefs # "ok"
                     THEN /\ backend_log' = Append(backend_log,
                               [call |-> "ReadPrefs", prefs |-> prefs])
                          /\ pc' = "PasswordsEnded"
                     ELSE IF backend = "none"
                       THEN /\ backend_log' = Append(backend_log,
                                 [call |-> "SelectBackend",
                                  selected |-> selected_backend,
                                  use_libsecret |-> use_libsecret])
                            /\ pc' = "PasswordsEnded"
                       ELSE /\ backend_log' = Append(backend_log,
                                 [call |-> "Init", backend |-> backend,
                                  selected |-> selected_backend,
                                  success |-> init])
                            /\ pc' = IF init THEN "GetAutofillableLogins"
                                             ELSE "PasswordsEnded"
  /\ UNCHANGED <<cancelled_, items, time, seconds, log, budget, db, s, rows, cookies, fav,
                 forms, blacklist, form_i>>

\* GetAutofillableLogins returning from ImportPasswords when the query fails.
GetAutofillableLoginsOrReturn ==
  /\ pc = "GetAutofillableLogins"
  /\ \E success \in BOOLEAN :
       IF success
         THEN \E got \in SeqsUpTo(AutofillableForms, budget) :
                /\ forms' = got
                /\ budget' = budget - Len(got)
                /\ backend_log' = Append(backend_log,
                     [call |-> "GetAutofillableLogins", success |-> TRUE,
                      forms |-> got])
                /\ pc' = "ForwardForms"
         ELSE /\ backend_log' = Append(backend_log,
                   [call |-> "GetAutofillableLogins", success |-> FALSE,
                    forms |-> <<>>])
              /\ pc' = "PasswordsEnded"
              /\ UNCHANGED <<forms, budget>>
  /\ UNCHANGED <<cancelled_, items, time, seconds, log, db, s, rows, cookies, fav, blacklist, form_i>>

\* bool success = backend->GetAutofillableLogins(&forms);
GetAutofillableLogins ==
  /\ pc = "GetAutofillableLogins"
  /\ \E success \in BOOLEAN :
       IF success
         THEN \E got \in SeqsUpTo(AutofillableForms, budget) :
                /\ forms' = got
                /\ budget' = budget - Len(got)
                /\ backend_log' = Append(backend_log,
                     [call |-> "GetAutofillableLogins", success |-> TRUE,
                      forms |-> got])
                /\ pc' = "ForwardForms"
         ELSE /\ backend_log' = Append(backend_log,
                   [call |-> "GetAutofillableLogins", success |-> FALSE,
                    forms |-> <<>>])
              /\ pc' = "GetBlacklistLogins"
              /\ UNCHANGED <<forms, budget>>
  /\ UNCHANGED <<cancelled_, items, time, seconds, log, db, s, rows, cookies, fav, blacklist, form_i>>

\* for (int i = 0; i < forms.size(); ++i) bridge_->SetPasswordForm(*forms[i]);
ForwardForms ==
  /\ pc = "ForwardForms"
  /\ IF form_i <= Len(forms)
       THEN /\ log' = Append(log, Call("SetPasswordForm", forms[form_i]))
            /\ form_i' = form_i + 1
            /\ UNCHANGED pc
       ELSE /\ pc' = "GetBlacklistLogins"
            /\ form_i' = 1
            /\ UNCHANGED log
  /\ UNCHANGED <<cancelled_, items, time, seconds, budget, db, s, rows, cookies, fav, forms,
                 blacklist, backend_log>>

\* success = backend->GetBlacklistLogins(&blacklist);
GetBlacklistLogins ==
  /\ pc = "GetBlacklistLogins"
  /\ \E success \in BOOLEAN :
       IF success
         THEN \E got \in SeqsUpTo(BlacklistForms, budget) :
                /\ blacklist' = got
                /\ budget' = budget - Len(got)
                /\ backend_log' = Append(backend_log,
                     [call |-> "GetBlacklistLogins", success |-> TRUE,
                      forms |-> got])
                /\ pc' = "ForwardBlacklist"
                /\ UNCHANGED forms
         ELSE /\ backend_log' = Append(backend_log,
                   [call |-> "GetBlacklistLogins", success |-> FALSE,
                    forms |-> <<>>])
              /\ pc' = "PasswordsEnded"
              /\ UNCHANGED <<forms, blacklist, budget>>
  /\ UNCHANGED <<cancelled_, items, time, seconds, log, db, s, rows, cookies, fav, form_i>>

\* for (int i = 0; i < blacklist.size(); ++i)
\*   bridge_->SetPasswordForm(*blacklist[i]);
ForwardBlacklist ==
  /\ pc = "ForwardBlacklist"
  /\ IF form_i <= Len(blacklist)
       THEN /\ log' = Append(log, Call("SetPasswordForm", blacklist[form_i]))
            /\ form_i' = form_i + 1
            /\ UNCHANGED <<pc, forms, blacklist>>
       ELSE /\ pc' = "PasswordsEnded"
            /\ UNCHANGED <<log, form_i, forms, blacklist>>
  /\ UNCHANGED <<cancelled_, items, time, seconds, budget, db, s, rows, cookies, fav,
                 backend_log>>

(***************************************************************************)
(* StartImport                                                             *)
(***************************************************************************)

HistoryGuard == ItemGuard("HISTORY", "ImportHistory", "FAVORITES")
HistoryEnded == ItemEnded("HISTORY", "HistoryEnded", "FAVORITES")
FavoritesGuard == ItemGuard("FAVORITES", "ImportBookmarks", "COOKIES")
FavoritesEnded == ItemEnded("FAVORITES", "FavoritesEnded", "COOKIES")
CookiesGuard == ItemGuard("COOKIES", "ImportCookies", "PASSWORDS")
CookiesEnded == ItemEnded("COOKIES", "CookiesEnded", "PASSWORDS")
PasswordsGuard == ItemGuard("PASSWORDS", "ImportPasswords", "NotifyEnded")
PasswordsEnded == ItemEnded("PASSWORDS", "PasswordsEnded", "NotifyEnded")

\* bridge_->NotifyEnded()
NotifyEnded ==
  /\ pc = "NotifyEnded"
  /\ log' = Append(log, Call("NotifyEnded", <<>>))
  /\ pc' = "done"
  /\ UNCHANGED <<cancelled_, items, time, seconds, budget, db, s, rows, cookies, fav, pw>>

\* One step of the importer.
Importer ==
  \/ NotifyStarted
  \/ HistoryGuard \/ ImportHistoryOpen \/ ImportHistoryStep
  \/ ImportHistoryDeliver \/ HistoryEnded
  \/ FavoritesGuard \/ ImportBookmarksRead \/ ImportBookmarksDeliver
  \/ ImportFaviconsOpen \/ ImportFaviconURLsStep \/ ImportFaviconsLoad
  \/ ImportFaviconsSet
  \/ FavoritesEnded
  \/ CookiesGuard \/ ImportCookiesOpen \/ ImportCookiesStep
  \/ ImportCookiesDeliver \/ CookiesEnded
  \/ PasswordsGuard \/ ImportPasswordsInit \/ GetAutofillableLogins
  \/ ForwardForms \/ GetBlacklistLogins \/ ForwardBlacklist
  \/ PasswordsEnded
  \/ NotifyEnded

Next == Importer \/ Cancel

Spec == Init /\ [][Next]_vars

\* The importer's thread keeps running: a step that can be taken is taken.
FairSpec == Spec /\ WF_vars(Importer)

(***************************************************************************)
(* chromeTimeToDouble, called on its own                                   *)
(***************************************************************************)

\* The seconds from 1601-01-01 to 1970-01-01: 11644473600.
SecondsTo1970 == Times(Int64Of(116444736), 100)

\* The largest and the smallest Unix second whose timestamp the function
\* converts without overflow: 922337203685 - 11644473600 and
\* -910692730085 - 11644473600.
MaxUnixSeconds == Int64(FALSE, <<85, 9273, 9106>>)
MinUnixSeconds == Int64(TRUE, <<3685, 3720, 9223>>)

\* Unix seconds of the timestamps converted: around 1970, dates of this
\* century, 1601 and the seconds next to it, the ends of the range.
UnixSeconds ==
  {Int64Of(n) : n \in {-86400, -61, -2, -1, 0, 1, 2, 59, 86399,
                       1234567890, 1234645498, 1478131200, 2147483647}}
    \cup {Negate(SecondsTo1970), Plus(Negate(SecondsTo1970), Int64Of(1)),
          Minus(Negate(SecondsTo1970), Int64Of(1)),
          Minus(MaxUnixSeconds, Int64Of(1)), MaxUnixSeconds,
          MinUnixSeconds, Plus(MinUnixSeconds, Int64Of(1))}

\* The microseconds of a timestamp within its second.
Micros == {0, 1, 500000, 999999}

\* The source timestamp of a Unix second and the microseconds within it:
\* microseconds since 1601-01-01.
SourceTimestamp(u, f) ==
  Plus(Times(Times(Times(Plus(u, SecondsTo1970), 100), 100), 100), Int64Of(f))

\* Timestamps whose conversion overflows: INT64_MAX, INT64_MIN, and the
\* first above the range.
OverflowingTimes ==
  {Int64(FALSE, MagSub(TwoTo63, <<1>>)), Int64(TRUE, TwoTo63),
   Plus(SourceTimestamp(MaxUnixSeconds, 999999), Int64Of(1))}

RECURSIVE Wrap(_)
\* A value reduced to the range of int64_t modulo 2^64.
Wrap(x) ==
  IF FitsInt64(x) THEN x
  ELSE IF x.neg THEN Wrap(Plus(x, Int64(FALSE, TwoTo64)))
  ELSE Wrap(Minus(x, Int64(FALSE, TwoTo64)))

\* The session is idle, and chromeTimeToDouble is called with a timestamp.
TimeInit ==
  /\ pc = "chromeTimeToDouble"
  /\ cancelled_ = FALSE
  /\ items = {}
  /\ log = <<>>
  /\ budget = 0
  /\ db = NoDb
  /\ s = <<>>
  /\ rows = <<>>
  /\ cookies = <<>>
  /\ bookmarks_json = "none"
  /\ bookmark_dict = [roots |-> FALSE]
  /\ bookmarks = <<>>
  /\ favicon_map = [order |-> <<>>, urls |-> << >>]
  /\ favicons = <<>>
  /\ forms = <<>>
  /\ blacklist = <<>>
  /\ form_i = 1
  /\ backend_log = <<>>
  /\ time \in {SourceTimestamp(u, f) : u \in UnixSeconds, f \in Micros}
                \cup OverflowingTimes
  /\ seconds = Zero

\* The call on a timestamp the arithmetic has room for.
ChromeTimeToDoubleReturn ==
  /\ pc = "chromeTimeToDouble"
  /\ ~Overflows(time)
  /\ seconds' = chromeTimeToDouble(time)
  /\ pc' = "returned"
  /\ UNCHANGED <<cancelled_, items, time, log, budget, db, s, rows, cookies,
                 fav, pw>>

\* The call on a timestamp that overflows: the build wraps the arithmetic
\* around, or traps.
ChromeTimeToDoubleOverflow ==
  /\ pc = "chromeTimeToDouble"
  /\ Overflows(time)
  /\ \/ /\ seconds' = Quotient(Quotient(
                        Wrap(Minus(Wrap(Times(time, 10)), TicksTo1970)),
                        10000), 1000)
        /\ pc' = "wrapped"
     \/ /\ pc' = "trapped"
        /\ UNCHANGED seconds
  /\ UNCHANGED <<cancelled_, items, time, log, budget, db, s, rows, cookies,
                 fav, pw>>

TimeNext == ChromeTimeToDoubleReturn \/ ChromeTimeToDoubleOverflow

TimeSpec == TimeInit /\ [][TimeNext]_vars

(***************************************************************************)
(* Properties                                                              *)
(***************************************************************************)

\* The calls of one name made on the bridge so far, in order.
CallsOf(name) == SelectSeq(log, LAMBDA e : e.call = name)

\* The last call made on the bridge.
LastCall == log[Len(log)]

\* The place of a category in StartImport's order.
Rank(item) == CHOOSE k \in 1..Len(ItemOrder) : ItemOrder[k] = item

\* StartImport runs no more: it returned, or std::stoll ended it.
Stopped == pc \in {"done", "aborted"}

\* a is an initial part of b.
IsPrefix(a, b) == Len(a) <= Len(b) /\ \A k \in 1..Len(a) : a[k] = b[k]

\* C1: the NotifyItemStarted calls name categories of the item mask only, in
\* the order History, Favorites, Cookies, Passwords, each at most once,
\* whenever the host sets the flag.
C1_StartOrder ==
  LET st == CallsOf("NotifyItemStarted")
  IN \A k \in 1..Len(st) :
       /\ st[k].arg \in items
       /\ \A j \in 1..(k - 1) : Rank(st[j].arg) < Rank(st[k].arg)

\* C1: all four categories requested, three started, then the flag set.
C1_Witness ==
  /\ pc = "done"
  /\ cancelled_
  /\ items = Items
  /\ Len(CallsOf("NotifyItemStarted")) = 3

\* C2: NotifyStarted is the first call on the bridge, NotifyEnded the last
\* and made once, and a run that has stopped has made it.
C2_StartedFirstEndedLast ==
  /\ log # <<>> => log[1].call = "NotifyStarted"
  /\ \A k \in 1..Len(log) :
       /\ log[k].call = "NotifyStarted" => k = 1
       /\ log[k].call = "NotifyEnded" => k = Len(log)
  /\ Stopped => (log # <<>> /\ LastCall.call = "NotifyEnded")

\* C3: every NotifyItemStarted(c) has NotifyItemEnded(c) as the next
\* notification, before any other category's and before NotifyEnded; it is
\* without one only while the step of c still runs.
C3_ItemBracketed ==
  LET n == SelectSeq(log, LAMBDA e :
             e.call \in {"NotifyItemStarted", "NotifyItemEnded", "NotifyEnded"})
  IN \A k \in 1..Len(n) :
       n[k].call = "NotifyItemStarted" =>
         IF k < Len(n)
           THEN n[k + 1].call = "NotifyItemEnded" /\ n[k + 1].arg = n[k].arg
           ELSE ~Stopped

\* A category has ended and the next one is not checked or not started yet.
BetweenItems ==
  /\ pc \in {"FAVORITES", "COOKIES", "PASSWORDS"}
  /\ log # <<>>
  /\ LastCall.call = "NotifyItemEnded"

\* The categories started so far.
StartedItems == CallsOf("NotifyItemStarted")

\* C4: with the flag set between two categories, no step from there on
\* starts a category, and the run goes on to call NotifyEnded, once.
C4_CancelBetweenItems ==
  /\ [][(cancelled_ /\ BetweenItems) => StartedItems' = StartedItems]_vars
  /\ (cancelled_ /\ BetweenItems)
       ~> (pc = "done" /\ Len(CallsOf("NotifyEnded")) = 1)

\* C4: Favorites was requested, History delivered its rows, the flag was set
\* before Favorites was checked, and the run ended.
C4_Witness ==
  /\ pc = "done"
  /\ cancelled_
  /\ "FAVORITES" \in items
  /\ CallsOf("SetHistoryItems") # <<>>
  /\ \A k \in 1..Len(StartedItems) : StartedItems[k].arg = "HISTORY"
  /\ Len(CallsOf("NotifyEnded")) = 1

\* C5 as stated: a row loop left by cancellation with rows still to step
\* delivers the rows it collected, when it collected any.
C5_PartialDelivery ==
  /\ (pc = "HistoryEnded" /\ s # <<>> /\ rows # <<>>)
       => (LastCall.call = "SetHistoryItems" /\ LastCall.arg = rows)
  /\ (pc = "CookiesEnded" /\ s # <<>> /\ cookies # <<>>)
       => (LastCall.call = "SetCookies" /\ LastCall.arg = cookies)

\* C5 as amended: a row loop left with rows still to step delivers nothing,
\* and a batch that is delivered holds every row of the query.
C5_AllOrNothing ==
  /\ (pc = "HistoryEnded" /\ s # <<>>) => LastCall.call = "NotifyItemStarted"
  /\ (pc = "CookiesEnded" /\ s # <<>>) => LastCall.call = "NotifyItemStarted"
  /\ (pc = "HistoryEnded" /\ LastCall.call = "SetHistoryItems")
       => (s = <<>> /\ Len(LastCall.arg) = Len(HistoryQuery(db.urls)))
  /\ (pc = "CookiesEnded" /\ LastCall.call = "SetCookies")
       => (s = <<>> /\ Len(LastCall.arg) = Len(CookiesQuery(db.cookies)))

\* C5: History was cancelled with a row collected and a row still to step.
C5_Witness ==
  /\ pc = "HistoryEnded"
  /\ cancelled_
  /\ s # <<>>
  /\ rows # <<>>

\* C6: a run that stopped without being cancelled has started and ended
\* every requested category.
C6_EveryRequestedItemRuns ==
  (Stopped /\ ~cancelled_) =>
    \A item \in items :
      \E j \in 1..Len(log), k \in 1..Len(log) :
        /\ j < k
        /\ log[j].call = "NotifyItemStarted" /\ log[j].arg = item
        /\ log[k].call = "NotifyItemEnded" /\ log[k].arg = item

\* The Bookmarks dictionary of C7: bookmark_bar holds one folder that holds
\* one url node, and there is nothing else.
C7_Tree ==
  /\ bookmark_dict.roots
  /\ bookmark_dict.bookmark_bar.present
  /\ Len(bookmark_dict.bookmark_bar.children) = 1
  /\ LET sub == bookmark_dict.bookmark_bar.children[1]
     IN /\ sub.dict /\ sub.type = "folder" /\ ~StollThrows(sub.date_added)
        /\ Len(sub.children) = 1
        /\ sub.children[1].dict /\ sub.children[1].type = "url"
        /\ ~StollThrows(sub.children[1].date_added)
  /\ (bookmark_dict.other.present => bookmark_dict.other.children = <<>>)

\* C7 as stated: the walk of that tree gives three entries, the bookmark_bar
\* folder in the toolbar, the sub-folder and the leaf outside it, the leaf
\* with the path [bookmark_bar name, sub-folder name].
C7_ThreeEntries ==
  (pc = "BookmarksDeliver" /\ C7_Tree) =>
    LET bar == bookmark_dict.bookmark_bar
        sub == bar.children[1]
    IN /\ Len(bookmarks) = 3
       /\ bookmarks[1].is_folder /\ bookmarks[1].in_toolbar
       /\ bookmarks[1].title = bar.name
       /\ bookmarks[2].is_folder /\ ~bookmarks[2].in_toolbar
       /\ bookmarks[2].title = sub.name
       /\ ~bookmarks[3].is_folder /\ ~bookmarks[3].in_toolbar
       /\ bookmarks[3].path = <<bar.name, sub.name>>

\* C7 as amended: the walk of that tree gives two entries, the sub-folder in
\* the toolbar with the path [bookmark_bar name], then the leaf outside the
\* toolbar with the path [bookmark_bar name, sub-folder name]; the root has
\* no entry.
C7_TwoEntries ==
  (pc = "BookmarksDeliver" /\ C7_Tree) =>
    LET bar == bookmark_dict.bookmark_bar
        sub == bar.children[1]
        leaf == sub.children[1]
    IN /\ Len(bookmarks) = 2
       /\ bookmarks[1].is_folder /\ bookmarks[1].in_toolbar
       /\ bookmarks[1].title = sub.name
       /\ bookmarks[1].path = <<bar.name>>
       /\ ~bookmarks[2].is_folder /\ ~bookmarks[2].in_toolbar
       /\ bookmarks[2].url = leaf.url
       /\ bookmarks[2].path = <<bar.name, sub.name>>

\* C7: the walk has run over that tree.
C7_Witness == pc = "BookmarksDeliver" /\ C7_Tree

\* The credentials forwarded to the bridge so far, in order.
Forwarded ==
  LET f == CallsOf("SetPasswordForm") IN [k \in 1..Len(f) |-> f[k].arg]

\* The queries of one name made on the backend so far.
Queries(name) == SelectSeq(backend_log, LAMBDA e : e.call = name)

\* The credentials the backend returned so far: the autofillable ones, then
\* the blacklisted ones.
Retrieved ==
  LET a == Queries("GetAutofillableLogins")
      b == Queries("GetBlacklistLogins")
  IN (IF a = <<>> THEN <<>> ELSE a[1].forms)
       \o (IF b = <<>> THEN <<>> ELSE b[1].forms)

\* The Passwords step has returned.
PasswordsOver == pc \in {"PasswordsEnded", "NotifyEnded", "done"}

\* C8: each credential the backend returns is forwarded by a call of its
\* own, in the order returned, the autofillable ones before the blacklisted
\* ones; the blacklisted query runs whether the autofillable query succeeds
\* or fails, and after either failure the step returns to StartImport.
C8_CredentialsForwarded ==
  /\ IsPrefix(Forwarded, Retrieved)
  /\ PasswordsOver => Forwarded = Retrieved
  /\ \A k \in 1..Len(Forwarded) :
       /\ Forwarded[k] \in AutofillableForms \cup BlacklistForms
       /\ \A j \in 1..(k - 1) :
            ~(Forwarded[j].blacklisted_by_user /\ ~Forwarded[k].blacklisted_by_user)
  /\ (PasswordsOver /\ Queries("GetAutofillableLogins") # <<>>)
       => Queries("GetBlacklistLogins") # <<>>
  /\ (PasswordsOver /\ Queries("Init") # <<>> /\ Queries("Init")[1].success)
       => Queries("GetAutofillableLogins") # <<>>

\* C8: the autofillable query failed and blacklisted credentials went out.
C8_Witness ==
  /\ pc = "PasswordsEnded"
  /\ Queries("GetAutofillableLogins") # <<>>
  /\ ~Queries("GetAutofillableLogins")[1].success
  /\ Forwarded # <<>>

\* The rows of a cookies table with an empty encrypted_value.
PlainCookies(table) == SelectSeq(table, LAMBDA r : r.encrypted_value = <<>>)

\* C9: the cookies delivered are the rows with an empty encrypted_value, one
\* entry each and no other, with host = "*" + host_key and domain = host_key;
\* a step with an openable store that is never cancelled delivers them.
C9_CookieFilter ==
  /\ (pc = "CookiesEnded" /\ LastCall.call = "SetCookies") =>
       LET d == LastCall.arg
           p == PlainCookies(db.cookies)
       IN /\ Len(d) = Len(p)
          /\ \A k \in 1..Len(d) :
               /\ d[k].domain = p[k].host_key
               /\ d[k].host = <<"*">> \o p[k].host_key
  /\ (pc = "CookiesEnded" /\ db.open /\ ~cancelled_
        /\ PlainCookies(db.cookies) # <<>>)
       => LastCall.call = "SetCookies"

\* C9: a table with an encrypted row and a plain row was delivered.
C9_Witness ==
  /\ pc = "CookiesEnded"
  /\ LastCall.call = "SetCookies"
  /\ Len(db.cookies) > Len(LastCall.arg)

\* The page URLs the icon_mapping table gives for an icon id.
PageUrls(mapping, icon_id) ==
  {mapping[k].page_url : k \in {j \in 1..Len(mapping) : mapping[j].icon_id = icon_id}}

\* The icon ids of the icon_mapping table.
MappedIds(mapping) == {mapping[k].icon_id : k \in 1..Len(mapping)}

\* The favicons table resolves the id: a row with a remote URL, or with a
\* data URL that has bytes and re-encodes.
Resolves(table, icon_id) ==
  /\ table[icon_id].row
  /\ table[icon_id].url \in {"http://i", "data:png"}

\* C10: the favicon list delivered holds one usage for every mapped icon the
\* favicons table resolves, with exactly the page URLs mapped to it, and
\* none for an icon it does not resolve.
C10_FaviconUsages ==
  (pc = "FavoritesEnded" /\ LastCall.call = "SetFavicons") =>
    LET list == LastCall.arg
        mapping == db.icon_mapping
    IN /\ \A k \in 1..Len(list) : list[k].icon_id \in MappedIds(mapping)
       /\ \A id \in MappedIds(mapping) :
            LET us == {k \in 1..Len(list) : list[k].icon_id = id}
            IN IF Resolves(db.favicons, id)
                 THEN /\ Cardinality(us) = 1
                      /\ \A k \in us : list[k].urls = PageUrls(mapping, id)
                 ELSE us = {}

\* C10: a usage with two page URLs was delivered.
C10_Witness ==
  /\ pc = "FavoritesEnded"
  /\ LastCall.call = "SetFavicons"
  /\ \E k \in 1..Len(LastCall.arg) : Cardinality(LastCall.arg[k].urls) = 2

\* 11644473600 * 10^7, the 100-nanosecond ticks from 1601 to 1970.
TicksOfSecondsTo1970 ==
  Times(Times(Times(Times(SecondsTo1970, 100), 100), 100), 10)

\* The call has returned the conversion of the timestamp of second u and
\* microsecond f.
Converted(u, f) == pc = "returned" /\ time = SourceTimestamp(u, f)

\* C11: the constant 0x19DB1DED53E8000 is 11644473600 * 10^7; the timestamp
\* of every whole Unix second converts to that second; and a timestamp with
\* microseconds converts to the second of its whole-second part.
C11_TimeRoundTrip ==
  /\ TicksTo1970 = TicksOfSecondsTo1970
  /\ \A u \in UnixSeconds : Converted(u, 0) => seconds = u
  /\ \A u \in UnixSeconds, f \in Micros : Converted(u, f) => seconds = u

\* C11, the part that holds: the constant, the whole seconds of the range,
\* before 1970 and before 1601 too, and the timestamps with microseconds
\* from 1970-01-01 on.
C11_WholeSecondsAndFrom1970 ==
  /\ TicksTo1970 = TicksOfSecondsTo1970
  /\ \A u \in UnixSeconds : Converted(u, 0) => seconds = u
  /\ \A u \in UnixSeconds, f \in Micros :
       (Converted(u, f) /\ ~u.neg) => seconds = u

\* C11, what the division does before 1970: a timestamp with microseconds
\* converts to the second after the one it lies in.
C11_Before1970RoundsUp ==
  \A u \in UnixSeconds, f \in Micros \ {0} :
    (Converted(u, f) /\ u.neg) => seconds = Plus(u, Int64Of(1))

\* The rows of a urls table that are not hidden.
VisibleRows(table) == SelectSeq(table, LAMBDA r : r.hidden # 1)

\* C12: no hidden row of the urls table is delivered and every delivered
\* record has hidden = false; the batch delivered is the rows with
\* hidden = 0, one record each in the order of the table, in one
\* SetHistoryItems call, and a step with an openable store that is never
\* cancelled delivers it.
C12_HistoryFilter ==
  /\ Len(CallsOf("SetHistoryItems")) <= 1
  /\ \A k \in 1..Len(log) :
       log[k].call = "SetHistoryItems" =>
         \A j \in 1..Len(log[k].arg) : log[k].arg[j].hidden = FALSE
  /\ (pc = "HistoryEnded" /\ LastCall.call = "SetHistoryItems") =>
       LET d == LastCall.arg
           v == VisibleRows(db.urls)
       IN /\ Len(d) = Len(v)
          /\ \A k \in 1..Len(d) : d[k].url = v[k].url
  /\ (pc = "HistoryEnded" /\ db.open /\ ~cancelled_
        /\ VisibleRows(db.urls) # <<>>)
       => LastCall.call = "SetHistoryItems"

\* C12: a table with a hidden row before a visible row was delivered.
C12_Witness ==
  /\ pc = "HistoryEnded"
  /\ LastCall.call = "SetHistoryItems"
  /\ Len(db.urls) = 2
  /\ db.urls[1].hidden = 1
  /\ Len(LastCall.arg) = 1

\* The data-delivery calls of the given names made on the bridge so far.
Deliveries(names) == SelectSeq(log, LAMBDA e : e.call \in names)

\* A step taken with the flag set makes no call of the given names.
NoneAfterCancel(names) ==
  cancelled_ => Deliveries(names)' = Deliveries(names)

\* C13: once the flag is set the session makes no data-delivery call
\* (SetHistoryItems, AddBookmarks, SetFavicons, SetCookies, SetPasswordForm),
\* and a step that sets the flag is no step of the importer: it changes
\* nothing else.
C13_NoDeliveryAfterCancel ==
  /\ [][NoneAfterCancel({"SetHistoryItems", "AddBookmarks", "SetFavicons",
                          "SetCookies", "SetPasswordForm"})]_vars
  /\ [][cancelled_' # cancelled_ =>
          UNCHANGED <<pc, items, log, budget, db, s, rows, cookies, fav, pw,
                      time, seconds>>]_vars

\* C13, the part that holds: the deliveries of History, of the bookmarks and
\* of Cookies poll the flag, and the importer never sets it.
C13_PolledDeliveries ==
  /\ [][NoneAfterCancel({"SetHistoryItems", "AddBookmarks", "SetCookies"})]_vars
  /\ [][cancelled_' # cancelled_ =>
          UNCHANGED <<pc, items, log, budget, db, s, rows, cookies, fav, pw,
                      time, seconds>>]_vars

\* C13, the favicon list alone: no SetFavicons once the flag is set.
C13_NoFaviconsAfterCancel == [][NoneAfterCancel({"SetFavicons"})]_vars

\* C13, the credentials alone: no SetPasswordForm once the flag is set.
C13_NoCredentialsAfterCancel ==
  [][NoneAfterCancel({"SetPasswordForm"})]_vars

RECURSIVE WellFormedCount(_)
\* The nodes of a children list that are dictionaries of type folder or url
\* with a date_added std::stoll converts, those below them included.
WellFormedCount(children) ==
  IF children = <<>> THEN 0
  ELSE LET n == Head(children)
       IN (IF n.dict /\ n.type \in {"folder", "url"} /\ ~StollThrows(n.date_added)
             THEN 1 + (IF n.type = "folder" THEN WellFormedCount(n.children) ELSE 0)
             ELSE 0)
          + WellFormedCount(Tail(children))

\* The well-formed nodes of the Bookmarks dictionary read.
WellFormedNodes ==
  IF ~bookmark_dict.roots THEN 0
  ELSE (IF bookmark_dict.bookmark_bar.present
          THEN WellFormedCount(bookmark_dict.bookmark_bar.children) ELSE 0)
       + (IF bookmark_dict.other.present
            THEN WellFormedCount(bookmark_dict.other.children) ELSE 0)

\* The Favorites step was started and NotifyItemEnded(FAVORITES) was called.
FavoritesBracketed ==
  (\E k \in 1..Len(log) :
     log[k].call = "NotifyItemStarted" /\ log[k].arg = "FAVORITES")
    => \E k \in 1..Len(log) :
         log[k].call = "NotifyItemEnded" /\ log[k].arg = "FAVORITES"

\* C14: the walk never aborts; a child that is no dictionary, has no or an
\* unknown type, or a date_added that is no integer, is skipped alone, so
\* that the walk emits an entry for every well-formed node of the tree; and
\* a session that has stopped has called NotifyItemEnded for Favorites.
C14_MalformedSkipped ==
  /\ pc # "aborted"
  /\ pc \in {"BookmarksDeliver", "aborted"} => Len(bookmarks) = WellFormedNodes
  /\ Stopped => FavoritesBracketed

\* C14, the part that holds: with no date_added that std::stoll rejects in
\* the tree, the children that are no dictionaries or have no or an unknown
\* type are skipped, and every other node is emitted.
C14_SkippedWithoutDate ==
  pc = "BookmarksDeliver" => Len(bookmarks) = WellFormedNodes

\* The entry is of a direct child of the root.
ChildOfRoot(entry, root) == root.present /\ entry.path = <<root.name>>

\* The entry lies under the root, at any depth.
UnderRoot(entry, root) == root.present /\ entry.path[1] = root.name

\* C15 as stated: every entry of the walk, under bookmark_bar at any depth
\* and under other, has in_toolbar = false.
C15_NotPropagated ==
  pc = "BookmarksDeliver" =>
    \A k \in 1..Len(bookmarks) : ~bookmarks[k].in_toolbar

\* C15 as amended: the entries of the direct children of bookmark_bar have
\* in_toolbar = true; the entries of deeper descendants of bookmark_bar and
\* all entries under other have in_toolbar = false.
C15_DirectChildrenInToolbar ==
  pc = "BookmarksDeliver" =>
    \A k \in 1..Len(bookmarks) :
      bookmarks[k].in_toolbar
        <=> ChildOfRoot(bookmarks[k], bookmark_dict.bookmark_bar)

\* C15: the walk gave a direct child of bookmark_bar and a child of that
\* child.
C15_Witness ==
  /\ pc = "BookmarksDeliver"
  /\ Len(bookmarks) = 2
  /\ bookmarks[1].in_toolbar /\ Len(bookmarks[1].path) = 1
  /\ ~bookmarks[2].in_toolbar /\ Len(bookmarks[2].path) = 2

\* C15: the walk gave an entry under other.
C15_WitnessOther ==
  /\ pc = "BookmarksDeliver"
  /\ \E k \in 1..Len(bookmarks) : UnderRoot(bookmarks[k], bookmark_dict.other)

\* What an entry says of its node: in_toolbar left out.
Shape(entry) ==
  [is_folder |-> entry.is_folder, title |-> entry.title, path |-> entry.path,
   url |-> entry.url]

RECURSIVE PreOrder(_, _)
\* The depth-first pre-order of a children list under a path: each node in
\* the order of the list, a folder right before the pre-order of its own
\* children under the path extended by its name; a url node alone.
PreOrder(children, path) ==
  IF children = <<>> THEN <<>>
  ELSE LET n == Head(children)
           own == IF ~n.dict THEN <<>>
                  ELSE IF n.type = "folder"
                    THEN <<[is_folder |-> TRUE, title |-> n.name,
                            path |-> path, url |-> ""]>>
                           \o PreOrder(n.children, Append(path, n.name))
                  ELSE IF n.type = "url"
                    THEN <<[is_folder |-> FALSE, title |-> n.name,
                            path |-> path, url |-> n.url]>>
                  ELSE <<>>
       IN own \o PreOrder(Tail(children), path)

\* The pre-order of a root under its own name.
PreOrderOfRoot(root) ==
  IF root.present THEN PreOrder(root.children, <<root.name>>) ELSE <<>>

C16_WitnessUrlChildren ==
  /\ pc = "BookmarksDeliver"
  /\ bookmark_dict.roots /\ bookmark_dict.bookmark_bar.present
  /\ Len(bookmark_dict.bookmark_bar.children) = 1
  /\ bookmark_dict.bookmark_bar.children[1].dict
  /\ bookmark_dict.bookmark_bar.children[1].type = "url"
  /\ bookmark_dict.bookmark_bar.children[1].children # <<>>
  /\ Len(bookmarks) = 1

\* The AddBookmarks calls made so far.
AddBookmarksCalls == CallsOf("AddBookmarks")

\* C17: AddBookmarks is called at most once in a session, with the whole
\* vector of the walk, the entries of bookmark_bar and then those of other,
\* and the one folder label; the step that decides the delivery calls it
\* exactly when the vector is not empty and the flag is not set, and no
\* other step calls it.
C17_SingleBatch ==
  /\ [](Len(AddBookmarksCalls) <= 1)
  /\ [](\A k \in 1..Len(AddBookmarksCalls) :
          /\ AddBookmarksCalls[k].arg.bookmarks # <<>>
          /\ AddBookmarksCalls[k].arg.first_folder_name = "Imported from Chrome")
  /\ []((pc = "FaviconsOpen" /\ LastCall.call = "AddBookmarks") =>
          /\ LastCall.arg.bookmarks = bookmarks
          /\ Len(bookmarks) = Len(PreOrderOfRoot(bookmark_dict.bookmark_bar))
                                + Len(PreOrderOfRoot(bookmark_dict.other)))
  /\ [][IF pc = "BookmarksDeliver" /\ pc' = "FaviconsOpen"
             /\ bookmarks # <<>> /\ ~cancelled_
          THEN Len(AddBookmarksCalls') = Len(AddBookmarksCalls) + 1
          ELSE AddBookmarksCalls' = AddBookmarksCalls]_vars

\* C17: one batch with an entry of bookmark_bar and an entry of other was
\* delivered.
C17_Witness ==
  /\ pc = "FaviconsOpen"
  /\ LastCall.call = "AddBookmarks"
  /\ Len(LastCall.arg.bookmarks) = 2
  /\ ChildOfRoot(LastCall.arg.bookmarks[1], bookmark_dict.bookmark_bar)
  /\ ChildOfRoot(LastCall.arg.bookmarks[2], bookmark_dict.other)

\* C17: the flag was set before the delivery of a vector with entries, and
\* the step went on without an AddBookmarks call.
C17_WitnessCancelled ==
  /\ pc = "FaviconsOpen"
  /\ cancelled_
  /\ bookmarks # <<>>
  /\ AddBookmarksCalls = <<>>

\* The batches delivered so far by calls of one name.
Batches(name) ==
  LET c == CallsOf(name) IN [k \in 1..Len(c) |-> c[k].arg]

\* C18: every batch delivered to the bridge holds at least one record: the
\* rows of SetHistoryItems, the entries of AddBookmarks, the usages of
\* SetFavicons, the cookies of SetCookies.
C18_NonEmptyBatches ==
  /\ \A k \in 1..Len(Batches("SetHistoryItems")) :
       Batches("SetHistoryItems")[k] # <<>>
  /\ \A k \in 1..Len(Batches("AddBookmarks")) :
       Batches("AddBookmarks")[k].bookmarks # <<>>
  /\ \A k \in 1..Len(Batches("SetCookies")) : Batches("SetCookies")[k] # <<>>
  /\ \A k \in 1..Len(Batches("SetFavicons")) : Batches("SetFavicons")[k] # <<>>

\* C18, the part that holds: the batches of SetHistoryItems, AddBookmarks
\* and SetCookies are never empty.
C18_NonEmptyButFavicons ==
  /\ \A k \in 1..Len(Batches("SetHistoryItems")) :
       Batches("SetHistoryItems")[k] # <<>>
  /\ \A k \in 1..Len(Batches("AddBookmarks")) :
       Batches("AddBookmarks")[k].bookmarks # <<>>
  /\ \A k \in 1..Len(Batches("SetCookies")) : Batches("SetCookies")[k] # <<>>

\* C18, what SetFavicons gets: the list is empty exactly when no icon of
\* the mapping resolves.
C18_FaviconsEmptyWhenNoneResolves ==
  (pc = "FavoritesEnded" /\ LastCall.call = "SetFavicons") =>
    (LastCall.arg = <<>>
       <=> \A id \in MappedIds(db.icon_mapping) : ~Resolves(db.favicons, id))

\* The place of the first row of the icon_mapping table with the icon id.
FirstRow(mapping, icon_id) ==
  CHOOSE k \in 1..Len(mapping) :
    /\ mapping[k].icon_id = icon_id
    /\ \A j \in 1..(k - 1) : mapping[j].icon_id # icon_id

ServiceSelections ==
  {"KWALLET", "KWALLET5", "GNOME_KEYRING", "GNOME_LIBSECRET", "GNOME_ANY"}

\* The backends of the kind a selection names.
MatchingBackends(selected_backend) ==
  IF selected_backend = "KWALLET" THEN {"NativeBackendKWallet(KDE4)"}
  ELSE IF selected_backend = "KWALLET5" THEN {"NativeBackendKWallet(KDE5)"}
  ELSE IF selected_backend \in {"GNOME_KEYRING", "GNOME_LIBSECRET", "GNOME_ANY"}
    THEN {"NativeBackendLibsecret", "NativeBackendGnome"}
  ELSE {}

\* Of the given selections, on a build with the keyring service compiled
\* in (USE_LIBSECRET): the step never goes without a backend, the backend
\* initialised is of the kind selected, and one whose Init succeeds is
\* queried.
BackendUsedFor(selections) ==
  /\ \A k \in 1..Len(backend_log) :
       /\ (backend_log[k].call = "SelectBackend"
             /\ backend_log[k].use_libsecret)
            => backend_log[k].selected \notin selections
       /\ (backend_log[k].call = "Init"
             /\ backend_log[k].backend # "LoginDatabase")
            => backend_log[k].backend
                 \in MatchingBackends(backend_log[k].selected)
  /\ (PasswordsOver /\ Queries("Init") # <<>> /\ Queries("Init")[1].success)
       => Queries("GetAutofillableLogins") # <<>>

\* A step that found no kLocalProfileId in the preferences forwards nothing.
NothingWithoutProfileId ==
  (PasswordsOver /\ Queries("ReadPrefs") # <<>>) => Forwarded = <<>>

\* C20: for each of the selections KWALLET, KWALLET5, GNOME_KEYRING,
\* GNOME_LIBSECRET and GNOME_ANY a backend of the matching kind is
\* constructed and queried; a missing or unreadable kLocalProfileId gives no
\* credential.
C20_BackendSelection ==
  /\ BackendUsedFor(ServiceSelections)
  /\ NothingWithoutProfileId

\* C20, the part that holds: the same of the selections other than
\* GNOME_KEYRING.
C20_BackendsButKeyring ==
  /\ BackendUsedFor(ServiceSelections \ {"GNOME_KEYRING"})
  /\ NothingWithoutProfileId

\* C20, what GNOME_KEYRING gives: no backend, and no credential forwarded.
C20_KeyringForwardsNothing ==
  (PasswordsOver /\ Queries("SelectBackend") # <<>>) => Forwarded = <<>>

\* The SetFavicons calls made so far.
SetFaviconsCalls == CallsOf("SetFavicons")

\* C21: SetFavicons is called only in a step that read and parsed the
\* Bookmarks file as a dictionary; a step whose Bookmarks file is absent,
\* unreadable or no dictionary returns without opening the Favicons store
\* and delivers no favicons, cancelled or not.
C21_FaviconsNeedBookmarks ==
  /\ [][SetFaviconsCalls' # SetFaviconsCalls => bookmarks_json = "dict"]_vars
  /\ []((pc = "FavoritesEnded" /\ bookmarks_json # "dict") =>
          /\ bookmarks_json \in {"null", "notdict"}
          /\ db = NoDb
          /\ SetFaviconsCalls = <<>>
          /\ LastCall.call = "NotifyItemStarted" /\ LastCall.arg = "FAVORITES")
  /\ [](pc \in {"FaviconsOpen", "FaviconURLsStep", "FaviconsCheck", "SetFavicons"}
          => bookmarks_json = "dict")

\* C21: a session never cancelled returned from a Bookmarks file that is no
\* dictionary.
C21_Witness ==
  /\ pc = "FavoritesEnded"
  /\ bookmarks_json = "notdict"
  /\ ~cancelled_

\* C21: favicons were delivered in a step whose Bookmarks dictionary holds
\* no bookmark.
C21_WitnessDelivered ==
  /\ pc = "FavoritesEnded"
  /\ bookmarks_json = "dict"
  /\ bookmarks = <<>>
  /\ LastCall.call = "SetFavicons"
  /\ LastCall.arg # <<>>

\* The category whose step makes a data-delivery call.
CategoryOf(call) ==
  IF call = "SetHistoryItems" THEN "HISTORY"
  ELSE IF call \in {"AddBookmarks", "SetFavicons"} THEN "FAVORITES"
  ELSE IF call = "SetCookies" THEN "COOKIES"
  ELSE "PASSWORDS"

\* The data-delivery calls and the signals of the bridge.
DataCalls ==
  {"SetHistoryItems", "AddBookmarks", "SetFavicons", "SetCookies",
   "SetPasswordForm"}
Signals ==
  {"NotifyStarted", "NotifyItemStarted", "NotifyItemEnded", "NotifyEnded"}

\* The places of the signals before and after the place k of the log.
SignalsBefore(k) == {j \in 1..(k - 1) : log[j].call \in Signals}
SignalsAfter(k) == {j \in (k + 1)..Len(log) : log[j].call \in Signals}

\* The largest and the smallest of a set of places.
Last(places) == CHOOSE j \in places : \A i \in places : i <= j
First(places) == CHOOSE j \in places : \A i \in places : j <= i

\* C22: the signal last made before a data-delivery call is
\* NotifyItemStarted of the call's category and the signal next made after
\* it is NotifyItemEnded of that category, made by the time the session has
\* stopped; SetHistoryItems, AddBookmarks, SetFavicons and SetCookies are
\* each called at most once, AddBookmarks before SetFavicons; NotifyStarted
\* comes before and NotifyEnded after every data-delivery call.
C22_DeliveryBracketed ==
  /\ \A k \in 1..Len(log) :
       log[k].call \in DataCalls =>
         /\ log[1].call = "NotifyStarted"
         /\ SignalsBefore(k) # {}
         /\ log[Last(SignalsBefore(k))].call = "NotifyItemStarted"
         /\ log[Last(SignalsBefore(k))].arg = CategoryOf(log[k].call)
         /\ Stopped => SignalsAfter(k) # {}
         /\ SignalsAfter(k) # {} =>
              /\ log[First(SignalsAfter(k))].call = "NotifyItemEnded"
              /\ log[First(SignalsAfter(k))].arg = CategoryOf(log[k].call)
         /\ \A j \in 1..(k - 1) : log[j].call # "NotifyEnded"
  /\ \A name \in {"SetHistoryItems", "AddBookmarks", "SetFavicons", "SetCookies"} :
       Len(CallsOf(name)) <= 1
  /\ \A j, k \in 1..Len(log) :
       (log[j].call = "AddBookmarks" /\ log[k].call = "SetFavicons") => j < k

\* C22: a session ran to its end and delivered bookmarks and then favicons.
C22_Witness ==
  /\ pc = "done"
  /\ CallsOf("AddBookmarks") # <<>>
  /\ CallsOf("SetFavicons") # <<>>

\* C22: a session ran to its end and delivered history rows and credentials.
C22_WitnessTwoCategories ==
  /\ pc = "done"
  /\ CallsOf("SetHistoryItems") # <<>>
  /\ CallsOf("SetPasswordForm") # <<>>
====
